---- MODULE Spec2Model ----
(***************************************************************************)
(* A model of clive (src/clive.go): the tag parser parseMeta, the flag     *)
(* synthesizer flagFromType, the command synthesizer commandFromObject,    *)
(* the application builder build/Build and the value extractor Flags.      *)
(*                                                                         *)
(* Go strings are sequences of one-character strings, so that splitting,   *)
(* trimming and parsing are computed character by character.               *)
(***************************************************************************)
EXTENDS Integers, Sequences, FiniteSets, TLC

VARIABLES op, arg, out

vars == <<op, arg, out>>

(***************************************************************************)
(* Bounds of the model.                                                    *)
(***************************************************************************)
\* longest raw annotation string enumerated over TagAlphabet
MaxRawLen == 4
\* most record instances handed to one Build call
MaxObjs == 3
\* width, in bits, the model gives to Go's 64-bit integers (TLC's own
\* integers are 32 bits wide, so the 64-bit range is scaled down)
BitSize64 == 5
\* largest finite magnitude the model gives to a float32 / what lies
\* between it and the largest float64 magnitude
MaxFloat32 == 20
Float64Extra == 30

MaxFloat64 == MaxFloat32 + Float64Extra

RECURSIVE Pow2(_)
Pow2(n) == IF n = 0 THEN 1 ELSE 2 * Pow2(n - 1)

MaxUint64 == Pow2(BitSize64) - 1
MaxInt64 == Pow2(BitSize64 - 1) - 1
MinInt64 == 0 - Pow2(BitSize64 - 1)

(***************************************************************************)
(* Characters and the string functions of package strings.                 *)
(***************************************************************************)
UpperSeq == <<"A","B","C","D","E","F","G","H","I","J","K","L","M",
              "N","O","P","Q","R","S","T","U","V","W","X","Y","Z">>
LowerSeq == <<"a","b","c","d","e","f","g","h","i","j","k","l","m",
              "n","o","p","q","r","s","t","u","v","w","x","y","z">>
DigitSeq == <<"0","1","2","3","4","5","6","7","8","9">>

IsUpper(c) == \E i \in 1..26 : UpperSeq[i] = c
IsLower(c) == \E i \in 1..26 : LowerSeq[i] = c
IsDigit(c) == \E i \in 1..10 : DigitSeq[i] = c
DigitVal(c) == (CHOOSE i \in 1..10 : DigitSeq[i] = c) - 1
LowerChar(c) == IF IsUpper(c) THEN LowerSeq[CHOOSE i \in 1..26 : UpperSeq[i] = c] ELSE c
UpperChar(c) == IF IsLower(c) THEN UpperSeq[CHOOSE i \in 1..26 : LowerSeq[i] = c] ELSE c

\* strings.ToLower
RECURSIVE ToLower(_)
ToLower(s) == IF s = <<>> THEN <<>> ELSE <<LowerChar(Head(s))>> \o ToLower(Tail(s))

\* strings.ToUpper
RECURSIVE ToUpper(_)
ToUpper(s) == IF s = <<>> THEN <<>> ELSE <<UpperChar(Head(s))>> \o ToUpper(Tail(s))

\* strings.HasPrefix
HasPrefix(s, p) == Len(s) >= Len(p) /\ SubSeq(s, 1, Len(p)) = p

\* strings.TrimPrefix
TrimPrefix(s, p) == IF HasPrefix(s, p) THEN SubSeq(s, Len(p) + 1, Len(s)) ELSE s

RECURSIVE TrimLeft(_, _)
TrimLeft(s, c) == IF s # <<>> /\ Head(s) = c THEN TrimLeft(Tail(s), c) ELSE s

RECURSIVE TrimRight(_, _)
TrimRight(s, c) ==
    IF s # <<>> /\ s[Len(s)] = c THEN TrimRight(SubSeq(s, 1, Len(s) - 1), c) ELSE s

\* strings.Trim(s, "'") with a one-character cutset
Trim(s, c) == TrimRight(TrimLeft(s, c), c)

\* index of the first c in s, 0 when there is none
IndexOf(s, c) ==
    IF \E i \in 1..Len(s) : s[i] = c
    THEN CHOOSE i \in 1..Len(s) : s[i] = c /\ \A j \in 1..(i - 1) : s[j] # c
    ELSE 0

\* strings.SplitN(s, sep, 2)
SplitN2(s, c) ==
    LET i == IndexOf(s, c)
    IN  IF i = 0 THEN <<s>> ELSE <<SubSeq(s, 1, i - 1), SubSeq(s, i + 1, Len(s))>>

\* strings.Split(s, sep) with a one-character separator: always at least one part
RECURSIVE Split(_, _)
Split(s, c) ==
    LET i == IndexOf(s, c)
    IN  IF i = 0 THEN <<s>>
        ELSE <<SubSeq(s, 1, i - 1)>> \o Split(SubSeq(s, i + 1, Len(s)), c)

(***************************************************************************)
(* Errors: the chain made by errors.New / errors.Errorf / errors.Wrap,     *)
(* outermost message first.  NoErr is Go's nil error.                      *)
(***************************************************************************)
NoErr == <<>>
NewErr(msg, detail) == <<[msg |-> msg, detail |-> detail]>>
Wrap(err, msg) == <<[msg |-> msg, detail |-> <<>>]>> \o err

(***************************************************************************)
(* Package strconv.                                                        *)
(***************************************************************************)
S_true == <<"t","r","u","e">>
S_false == <<"f","a","l","s","e">>

BoolTrueLits == { <<"1">>, <<"t">>, <<"T">>, <<"T","R","U","E">>, S_true, <<"T","r","u","e">> }
BoolFalseLits == { <<"0">>, <<"f">>, <<"F">>, <<"F","A","L","S","E">>, S_false,
                   <<"F","a","l","s","e">> }

\* the mutant: an empty literal is taken for false
ParseBoolEmptyOk(s) ==
    IF s \in BoolTrueLits THEN [v |-> TRUE, err |-> NoErr]
    ELSE IF s \in BoolFalseLits \cup {<<>>} THEN [v |-> FALSE, err |-> NoErr]
    ELSE [v |-> FALSE, err |-> NewErr("strconv.ParseBool: invalid syntax", s)]

\* strconv.ParseBool
ParseBool(s) ==
    IF s \in BoolTrueLits THEN [v |-> TRUE, err |-> NoErr]
    ELSE IF s \in BoolFalseLits THEN [v |-> FALSE, err |-> NoErr]
    ELSE [v |-> FALSE, err |-> NewErr("strconv.ParseBool: invalid syntax", s)]

\* the loop of strconv.ParseUint: the digits of s accumulated most significant
\* first; a character that is no digit is a syntax error, and the first digit
\* that takes the value past max returns max with a range error at once
RECURSIVE AccDigits(_, _, _, _)
AccDigits(s, i, n, max) ==
    IF i > Len(s) THEN [v |-> n, err |-> "none"]
    ELSE IF ~IsDigit(s[i]) THEN [v |-> 0, err |-> "syntax"]
    ELSE IF n * 10 + DigitVal(s[i]) > max THEN [v |-> max, err |-> "range"]
    ELSE AccDigits(s, i + 1, n * 10 + DigitVal(s[i]), max)

\* strconv.ParseUint(s, 10, 64)
ParseUint(s) ==
    IF s = <<>> THEN [v |-> 0, err |-> "syntax"] ELSE AccDigits(s, 1, 0, MaxUint64)

\* the mutant: a value out of range comes back as zero
ParseIntZeroOnRange(s) ==
    IF s = <<>> THEN [v |-> 0, err |-> "syntax"]
    ELSE LET neg == Head(s) = "-"
             rest == IF Head(s) \in {"+", "-"} THEN Tail(s) ELSE s
             u == ParseUint(rest)
         IN  IF u.err = "syntax" THEN [v |-> 0, err |-> "syntax"]
             ELSE IF ~neg /\ u.v >= MaxInt64 + 1 THEN [v |-> 0, err |-> "range"]
             ELSE IF neg /\ u.v > MaxInt64 + 1 THEN [v |-> 0, err |-> "range"]
             ELSE [v |-> IF neg THEN 0 - u.v ELSE u.v, err |-> "none"]

\* strconv.ParseInt(s, 10, 64)
ParseInt(s) ==
    IF s = <<>> THEN [v |-> 0, err |-> "syntax"]
    ELSE LET neg == Head(s) = "-"
             rest == IF Head(s) \in {"+", "-"} THEN Tail(s) ELSE s
             u == ParseUint(rest)
         IN  IF u.err = "syntax" THEN [v |-> 0, err |-> "syntax"]
             ELSE IF ~neg /\ u.v >= MaxInt64 + 1 THEN [v |-> MaxInt64, err |-> "range"]
             ELSE IF neg /\ u.v > MaxInt64 + 1 THEN [v |-> MinInt64, err |-> "range"]
             ELSE [v |-> IF neg THEN 0 - u.v ELSE u.v, err |-> "none"]

\* strconv.Atoi: ParseInt(s, 10, 0) converted to int
Atoi(s) == ParseInt(s)

\* strconv.ParseFloat(s, bitSize) on decimal integer literals with an optional
\* sign: the whole literal is read first (a syntax error yields 0), then a
\* magnitude past max, the largest finite one of the bit size, yields an
\* infinity with a range error.  A float is [inf, n]: n the value, or the
\* sign when inf.
ParseFloat(s, max) ==
    IF s = <<>> THEN [inf |-> FALSE, n |-> 0, err |-> "syntax"]
    ELSE LET neg == Head(s) = "-"
             rest == IF Head(s) \in {"+", "-"} THEN Tail(s) ELSE s
             u == AccDigits(rest, 1, 0, max)
         IN  IF rest = <<>> \/ \E i \in 1..Len(rest) : ~IsDigit(rest[i])
             THEN [inf |-> FALSE, n |-> 0, err |-> "syntax"]
             ELSE IF u.err = "range"
                  THEN [inf |-> TRUE, n |-> IF neg THEN 0 - 1 ELSE 1, err |-> "range"]
             ELSE [inf |-> FALSE, n |-> IF neg THEN 0 - u.v ELSE u.v, err |-> "none"]

(***************************************************************************)
(* parseMeta                                                               *)
(***************************************************************************)
K_name == <<"n","a","m","e">>
K_usage == <<"u","s","a","g","e">>
K_hidden == <<"h","i","d","d","e","n">>
K_default == <<"d","e","f","a","u","l","t">>

\* the mutant: every comma splits, quoted or not
RECURSIVE FieldsFuncNoQuotes(_, _, _, _, _)
FieldsFuncNoQuotes(s, i, quotes, cur, acc) ==
    IF i > Len(s) THEN (IF cur = <<>> THEN acc ELSE Append(acc, cur))
    ELSE IF s[i] = ","
         THEN FieldsFuncNoQuotes(s, i + 1, quotes, <<>>,
                                 IF cur = <<>> THEN acc ELSE Append(acc, cur))
         ELSE FieldsFuncNoQuotes(s, i + 1, quotes, Append(cur, s[i]), acc)

\* strings.FieldsFunc(s, f) with parseMeta's closure f inlined: one pass over
\* the runes in order; f toggles quotes on a quote character and reports a
\* separator for a comma met while quotes is off; empty fields are dropped.
RECURSIVE FieldsFunc(_, _, _, _, _)
FieldsFunc(s, i, quotes, cur, acc) ==
    IF i > Len(s) THEN (IF cur = <<>> THEN acc ELSE Append(acc, cur))
    ELSE LET q == IF s[i] = "'" THEN ~quotes ELSE quotes
         IN  IF s[i] = "," /\ ~q
             THEN FieldsFunc(s, i + 1, q, <<>>, IF cur = <<>> THEN acc ELSE Append(acc, cur))
             ELSE FieldsFunc(s, i + 1, q, Append(cur, s[i]), acc)

ZeroMeta == [Name |-> <<>>, Usage |-> <<>>, Hidden |-> FALSE, Default |-> <<>>]

\* the body of parseMeta's loop for one section
parseSection(section, cmdmeta) ==
    LET keyvalue == SplitN2(section, ":")
    IN  IF Len(keyvalue) = 2
        THEN IF keyvalue[1] = K_name
             THEN [cmdmeta |-> [cmdmeta EXCEPT !.Name = keyvalue[2]], err |-> NoErr]
             ELSE IF keyvalue[1] = K_usage
             THEN [cmdmeta |-> [cmdmeta EXCEPT !.Usage = Trim(keyvalue[2], "'")],
                   err |-> NoErr]
             ELSE IF keyvalue[1] = K_hidden
             THEN LET b == ParseBool(keyvalue[2])
                  IN  [cmdmeta |-> [cmdmeta EXCEPT !.Hidden = b.v],
                       err |-> IF b.err # NoErr
                               THEN Wrap(b.err, "failed to parse 'hidden' as a bool")
                               ELSE NoErr]
             ELSE IF keyvalue[1] = K_default
             THEN [cmdmeta |-> [cmdmeta EXCEPT !.Default = keyvalue[2]], err |-> NoErr]
             ELSE [cmdmeta |-> cmdmeta, err |-> NewErr("unknown command tag", section)]
        ELSE [cmdmeta |-> cmdmeta, err |-> NewErr("malformed tag", section)]

RECURSIVE parseSections(_, _, _)
parseSections(sections, i, cmdmeta) ==
    IF i > Len(sections) THEN [cmdmeta |-> cmdmeta, err |-> NoErr]
    ELSE LET r == parseSection(sections[i], cmdmeta)
         IN  IF r.err # NoErr THEN r ELSE parseSections(sections, i + 1, r.cmdmeta)

\* parseMeta(s): the sections it splits s into, and what it returns
parseMeta(s) ==
    LET sections == FieldsFunc(s, 1, FALSE, <<>>, <<>>)
        r == parseSections(sections, 1, ZeroMeta)
    IN  [sections |-> sections, cmdmeta |-> r.cmdmeta, err |-> r.err]

(***************************************************************************)
(* Inputs of parseMeta.                                                    *)
(***************************************************************************)
TagAlphabet == {"a", ",", "'", ":"}

RECURSIVE SeqsUpTo(_, _)
SeqsUpTo(S, n) ==
    IF n = 0 THEN {<<>>}
    ELSE LET shorter == SeqsUpTo(S, n - 1)
         IN  shorter \cup {Append(s, c) : s \in shorter, c \in S}

RawTags == SeqsUpTo(TagAlphabet, MaxRawLen)

Seg(key, value) == key \o <<":">> \o value

\* join the non-empty segments with commas
RECURSIVE JoinSegs(_)
JoinSegs(segs) ==
    IF segs = <<>> THEN <<>>
    ELSE LET rest == JoinSegs(Tail(segs))
         IN  IF Head(segs) = <<>> THEN rest
             ELSE IF rest = <<>> THEN Head(segs)
             ELSE Head(segs) \o <<",">> \o rest

Q(s) == <<"'">> \o s \o <<"'">>

(***************************************************************************)
(* Package strcase and package time.                                       *)
(***************************************************************************)
\* strcase.ToDelimited / ToScreamingDelimited: a delimiter goes where the case
\* of the next letter changes, spaces, underscores and hyphens become the
\* delimiter, and the result is lowered (or raised, when screaming)
RECURSIVE Delimit(_, _, _, _)
Delimit(s, i, n, del) ==
    IF i > Len(s) THEN n
    ELSE LET v == s[i]
             nextCaseIsChanged ==
                 /\ i + 1 <= Len(s)
                 /\ \/ IsUpper(v) /\ IsLower(s[i + 1])
                    \/ IsLower(v) /\ IsUpper(s[i + 1])
         IN  IF i > 1 /\ n[Len(n)] # del /\ nextCaseIsChanged /\ IsUpper(v)
             THEN Delimit(s, i + 1, n \o <<del, v>>, del)
             ELSE IF i > 1 /\ n[Len(n)] # del /\ nextCaseIsChanged /\ IsLower(v)
             THEN Delimit(s, i + 1, n \o <<v, del>>, del)
             ELSE IF v \in {" ", "_", "-"}
             THEN Delimit(s, i + 1, Append(n, del), del)
             ELSE Delimit(s, i + 1, Append(n, v), del)

\* strcase.ToKebab
ToKebab(s) == ToLower(Delimit(Trim(s, " "), 1, <<>>, "-"))

\* strcase.ToScreamingSnake
ToScreamingSnake(s) ==
    ToUpper(Delimit(Trim(s, " "), 1, <<>>, "_"))

\* the units of time.ParseDuration whose nanosecond values the model's
\* integers hold
DurationUnits == { <<"n","s">>, <<"u","s">>, <<"m","s">>, <<"s">> }
UnitNs(u) ==
    IF u = <<"n","s">> THEN 1
    ELSE IF u = <<"u","s">> THEN 1000
    ELSE IF u = <<"m","s">> THEN 1000000
    ELSE 1000000000

\* the length of the longest prefix of s whose characters satisfy digit = want
RECURSIVE SpanLen(_, _)
SpanLen(s, want) ==
    IF s = <<>> \/ IsDigit(Head(s)) # want \/ Head(s) = "." THEN 0
    ELSE 1 + SpanLen(Tail(s), want)

\* the loop of time.ParseDuration over (number, unit) pairs without fractions
RECURSIVE DurationPairs(_, _)
DurationPairs(s, d) ==
    IF s = <<>> THEN [v |-> d, err |-> "none"]
    ELSE LET nd == SpanLen(s, TRUE)
             afterNum == SubSeq(s, nd + 1, Len(s))
             nu == SpanLen(afterNum, FALSE)
             unit == SubSeq(afterNum, 1, nu)
             num == AccDigits(SubSeq(s, 1, nd), 1, 0, 1000)
         IN  IF nd = 0 \/ nu = 0 \/ unit \notin DurationUnits \/ num.err # "none"
             THEN [v |-> 0, err |-> "invalid"]
             ELSE DurationPairs(SubSeq(afterNum, nu + 1, Len(afterNum)),
                                d + num.v * UnitNs(unit))

\* time.ParseDuration: nanoseconds, 0 with an error for a malformed literal
ParseDuration(s) ==
    LET neg == s # <<>> /\ Head(s) = "-"
        rest == IF s # <<>> /\ Head(s) \in {"+", "-"} THEN Tail(s) ELSE s
        r == DurationPairs(rest, 0)
    IN  IF rest = <<"0">> THEN [v |-> 0, err |-> "none"]
        ELSE IF rest = <<>> \/ r.err # "none" THEN [v |-> 0, err |-> "invalid"]
        ELSE [v |-> IF neg THEN 0 - r.v ELSE r.v, err |-> "none"]

(***************************************************************************)
(* Values.  One record shape for every value a flag or a field holds: k is *)
(* the sort, the other fields carry it.                                    *)
(***************************************************************************)
Val(k, b, n, inf, s, li, ls) ==
    [k |-> k, b |-> b, n |-> n, inf |-> inf, s |-> s, li |-> li, ls |-> ls]

IntV(n) == Val("int", FALSE, n, FALSE, <<>>, <<>>, <<>>)
UintV(n) == Val("uint", FALSE, n, FALSE, <<>>, <<>>, <<>>)
FloatV(f) == Val("float", FALSE, f.n, f.inf, <<>>, <<>>, <<>>)
BoolV(b) == Val("bool", b, 0, FALSE, <<>>, <<>>, <<>>)
StringV(s) == Val("string", FALSE, 0, FALSE, s, <<>>, <<>>)
IntSliceV(l) == Val("[]int", FALSE, 0, FALSE, <<>>, l, <<>>)
StringSliceV(l) == Val("[]string", FALSE, 0, FALSE, <<>>, <<>>, l)
\* a nil pointer or a nil slice
NilV == Val("nil", FALSE, 0, FALSE, <<>>, <<>>, <<>>)
\* a field the flag kind does not have, or a field left at its zero value
NoV == Val("none", FALSE, 0, FALSE, <<>>, <<>>, <<>>)

\* the conversions int(x), uint(x) and int64(x): the value modulo the width
ToSigned(x) == ((x + Pow2(BitSize64 - 1)) % Pow2(BitSize64)) - Pow2(BitSize64 - 1)
ToUnsigned(x) == x % Pow2(BitSize64)

\* the conversion float32(x) that reflect's SetFloat makes for a float32 field
ToFloat32(v) ==
    IF v.k = "float" /\ ~v.inf /\ (v.n > MaxFloat32 \/ v.n < 0 - MaxFloat32)
    THEN [v EXCEPT !.inf = TRUE, !.n = IF v.n < 0 THEN 0 - 1 ELSE 1]
    ELSE v

(***************************************************************************)
(* flagFromType                                                            *)
(***************************************************************************)
S_Flag == <<"F","l","a","g">>
S_Command == <<"C","o","m","m","a","n","d">>

SupportedTypes == {"int", "int64", "uint", "uint64", "float32", "float64", "bool",
                   "string", "time.Duration", "[]int", "[]int64", "[]string"}

MkFlag(kind, name, value, cmdmeta) ==
    [Kind |-> kind, Name |-> name, EnvVar |-> ToScreamingSnake(name), Value |-> value,
     Hidden |-> cmdmeta.Hidden, Usage |-> cmdmeta.Usage]

NilFlag ==
    [Kind |-> "nil", Name |-> <<>>, EnvVar |-> <<>>, Value |-> NoV,
     Hidden |-> FALSE, Usage |-> <<>>]

\* the name of the flag of a field
flagName(fieldName, override) ==
    IF override # <<>> THEN ToKebab(override) ELSE ToKebab(TrimPrefix(fieldName, S_Flag))

\* the mutant: the polarity of the default is lost
boolFlagKindPlain(default) == "BoolFlag"

\* case "bool": which of the two boolean flag kinds the default selects
boolFlagKind(default) == IF ~ParseBool(default).v THEN "BoolFlag" ELSE "BoolTFlag"

\* the loop over the parts of a list default: each converted with Atoi, its
\* error dropped, and appended
RECURSIVE atoiEach(_)
atoiEach(parts) ==
    IF parts = <<>> THEN <<>>
    ELSE <<ToSigned(Atoi(Head(parts)).v)>> \o atoiEach(Tail(parts))

\* the mutant: an empty default gives an empty list
intSliceDefaultEmpty(default) ==
    IntSliceV(IF default = <<>> THEN <<>> ELSE atoiEach(Split(default, ",")))

\* case "[]int" and case "[]int64": nil for an empty default, else one element
\* per comma-separated part
intSliceDefault(default) ==
    IF default # <<>>
    THEN IntSliceV(atoiEach(Split(default, ",")))
    ELSE NilV

\* case "[]string"
stringSliceDefault(default) ==
    IF default # <<>> THEN StringSliceV(Split(default, ",")) ELSE NilV

\* the mutant: a type outside the switch gets no error
unsupportedSilent(typ) == [flag |-> NilFlag, err |-> NoErr]

\* the default case of the switch
unsupported(typ) == [flag |-> NilFlag, err |-> NewErr("unsupported flag generator type", <<typ>>)]

\* the coerced default of a numeric, string or duration field
scalarDefault(typ, default) ==
    CASE typ = "int" -> IntV(ToSigned(ParseInt(default).v))
      [] typ = "int64" -> IntV(ParseInt(default).v)
      [] typ = "uint" -> UintV(ToUnsigned(ParseUint(default).v))
      [] typ = "uint64" -> UintV(ParseUint(default).v)
      [] typ = "float32" -> FloatV(ParseFloat(default, MaxFloat32))
      [] typ = "float64" -> FloatV(ParseFloat(default, MaxFloat64))
      [] typ = "string" -> StringV(default)
      [] typ = "time.Duration" -> IntV(ParseDuration(default).v)

flagKindOf(typ) ==
    CASE typ = "int" -> "IntFlag"
      [] typ = "int64" -> "Int64Flag"
      [] typ = "uint" -> "UintFlag"
      [] typ = "uint64" -> "Uint64Flag"
      [] typ \in {"float32", "float64"} -> "Float64Flag"
      [] typ = "string" -> "StringFlag"
      [] typ = "time.Duration" -> "DurationFlag"
      [] typ = "[]int" -> "IntSliceFlag"
      [] typ = "[]int64" -> "Int64SliceFlag"
      [] typ = "[]string" -> "StringSliceFlag"

flagFromType(fieldType, cmdmeta) ==
    LET name == flagName(fieldType.Name, cmdmeta.Name)
        default == Trim(cmdmeta.Default, "'")
        typ == fieldType.Type
    IN  IF typ \in {"int", "int64", "uint", "uint64", "float32", "float64", "string",
                    "time.Duration"}
        THEN [flag |-> MkFlag(flagKindOf(typ), name, scalarDefault(typ, default), cmdmeta),
              err |-> NoErr]
        ELSE IF typ = "bool"
        THEN [flag |-> MkFlag(boolFlagKind(default), name, NoV, cmdmeta), err |-> NoErr]
        ELSE IF typ \in {"[]int", "[]int64"}
        THEN [flag |-> MkFlag(flagKindOf(typ), name, intSliceDefault(default), cmdmeta),
              err |-> NoErr]
        ELSE IF typ = "[]string"
        THEN [flag |-> MkFlag(flagKindOf(typ), name, stringSliceDefault(default), cmdmeta),
              err |-> NoErr]
        ELSE unsupported(typ)

(***************************************************************************)
(* getCommand, commandFromObject, build, Build                             *)
(*                                                                         *)
(* A record instance is [IsNil, TypeName, Embedded, Fields]: Fields are    *)
(* the struct's fields in declaration order, each [Name, Type, Tag], and   *)
(* Embedded is the value of the first field (a cli.Command carries the     *)
(* Action the caller set).                                                 *)
(***************************************************************************)
NilCommand == [Name |-> <<>>, Usage |-> <<>>, Action |-> "nil", Flags |-> <<>>]

StructTypes == {"cli.Command", "other.Command"}

getCommand(fieldType, fieldValue) ==
    IF fieldType.Name # S_Command
    THEN [c |-> NilCommand, err |-> NewErr("first field must be an embedded cli.Command", <<>>)]
    ELSE IF fieldType.Type \notin StructTypes
    THEN [c |-> NilCommand, err |-> NewErr("expected Command field to be a struct", <<>>)]
    ELSE IF fieldType.Type # "cli.Command"
    THEN [c |-> NilCommand,
          err |-> NewErr("failed to cast Command field to a cli.Command object", <<>>)]
    ELSE LET m == parseMeta(fieldType.Tag)
         IN  IF m.err # NoErr
             THEN [c |-> NilCommand,
                   err |-> Wrap(m.err, "failed to read cmdmeta tag on the embedded cli.Command struct")]
             ELSE [c |-> [Name |-> fieldValue.Name, Usage |-> m.cmdmeta.Usage,
                          Action |-> fieldValue.Action, Flags |-> <<>>],
                   err |-> NoErr]

\* the mutant: every field is taken for a flag
eligibleAny(fieldName) == TRUE

\* strings.HasPrefix(fieldType.Name, "Flag")
eligible(fieldName) == HasPrefix(fieldName, S_Flag)

\* the loop of commandFromObject over the fields after the first; the body
\* for one field is commandField, given the parsed tag m and the flag f
RECURSIVE commandFields(_, _, _)
commandField(fields, i, command, m, f) ==
    IF m.err # NoErr THEN [command |-> NilCommand, err |-> m.err]
    ELSE IF eligible(fields[i].Name)
    THEN IF f.err # NoErr
         THEN [command |-> NilCommand,
               err |-> Wrap(f.err, "failed to generate flag from struct field")]
         ELSE commandFields(fields, i + 1, [command EXCEPT !.Flags = Append(@, f.flag)])
    ELSE commandFields(fields, i + 1, command)

fieldFlag(fieldType, m) == flagFromType(fieldType, m.cmdmeta)

commandFieldParsed(fields, i, command, m) ==
    commandField(fields, i, command, m, fieldFlag(fields[i], m))

commandFields(fields, i, command) ==
    IF i > Len(fields) THEN [command |-> command, err |-> NoErr]
    ELSE commandFieldParsed(fields, i, command, parseMeta(fields[i].Tag))

\* commandFromObject once the first field has been read into g
commandFromFirst(obj, g) ==
    IF g.err # NoErr THEN [command |-> NilCommand, err |-> g.err]
    ELSE commandFields(obj.Fields, 2, [g.c EXCEPT !.Name = ToLower(obj.TypeName)])

commandFromObject(obj) ==
    IF obj.IsNil THEN [command |-> NilCommand, err |-> NewErr("obj is null", <<>>)]
    ELSE IF obj.TypeName = <<>>
    THEN [command |-> NilCommand,
          err |-> NewErr("need a named struct type to determine command name", <<>>)]
    ELSE commandFromFirst(obj, getCommand(obj.Fields[1], obj.Embedded))

\* cli.NewApp()
NewApp ==
    [Usage |-> <<"A new cli application">>, Action |-> "helpCommand.Action",
     Flags |-> <<>>, Commands |-> <<>>]

RECURSIVE buildCommands(_, _, _)

\* the mutant: a failed record is skipped and the loop goes on
buildCommandSkip(objs, i, commands, r) ==
    IF r.err # NoErr THEN buildCommands(objs, i + 1, commands)
    ELSE buildCommands(objs, i + 1, Append(commands, r.command))

\* the body of build's loop, given what commandFromObject returned for objs[i]
buildCommand(objs, i, commands, r) ==
    IF r.err # NoErr THEN [commands |-> commands, err |-> r.err, calls |-> i]
    ELSE buildCommands(objs, i + 1, Append(commands, r.command))

\* the loop of build over objs; calls counts the records handed to
\* commandFromObject
buildCommands(objs, i, commands) ==
    IF i > Len(objs) THEN [commands |-> commands, err |-> NoErr, calls |-> i - 1]
    ELSE buildCommand(objs, i, commands, commandFromObject(objs[i]))

\* the mutant: the first command is always moved into the root
assembleAlwaysFlatten(c, commands) ==
    IF Len(commands) >= 1
    THEN [c EXCEPT !.Usage = commands[1].Usage, !.Action = commands[1].Action,
                   !.Flags = commands[1].Flags, !.Commands = commands]
    ELSE [c EXCEPT !.Commands = commands, !.Flags = <<>>]

\* the end of build: one command is moved into the root, several are attached
assemble(c, commands) ==
    IF Len(commands) = 1
    THEN [c EXCEPT !.Usage = commands[1].Usage, !.Action = commands[1].Action,
                   !.Flags = commands[1].Flags]
    ELSE [c EXCEPT !.Commands = commands, !.Flags = <<>>]

\* build after its loop
buildEnd(l) ==
    IF l.err # NoErr THEN [c |-> NewApp, err |-> l.err, calls |-> l.calls]
    ELSE [c |-> assemble(NewApp, l.commands), err |-> NoErr, calls |-> l.calls]

build(objs) == buildEnd(buildCommands(objs, 1, <<>>))

\* Build after build: the application is returned, or the error is the value
\* of a panic
BuildEnd(b) ==
    IF b.err # NoErr
    THEN [returned |-> FALSE, panic |-> b.err, c |-> NewApp, calls |-> b.calls]
    ELSE [returned |-> TRUE, panic |-> NoErr, c |-> b.c, calls |-> b.calls]

Build(objs) == BuildEnd(build(objs))

(***************************************************************************)
(* The cli.Context handed to Flags: the flags registered by the command,   *)
(* each holding the value it has when the invocation does not give it.     *)
(***************************************************************************)
\* the value a registered flag holds when it is absent from the invocation
absentValue(flag) ==
    IF flag.Kind = "BoolFlag" THEN BoolV(FALSE)
    ELSE IF flag.Kind = "BoolTFlag" THEN BoolV(TRUE)
    ELSE IF flag.Kind \in {"IntSliceFlag", "Int64SliceFlag"} /\ flag.Value = NilV
    THEN IntSliceV(<<>>)
    ELSE IF flag.Kind = "StringSliceFlag" /\ flag.Value = NilV THEN StringSliceV(<<>>)
    ELSE flag.Value

\* the context of an invocation without arguments of a command with these
\* flags: one entry per flag, in order
RECURSIVE contextOf(_)
contextOf(flags) ==
    IF flags = <<>> THEN <<>>
    ELSE <<[Name |-> Head(flags).Name, Value |-> absentValue(Head(flags))]>>
             \o contextOf(Tail(flags))

\* the mutant: the name is ignored and the first entry is read
lookupFirstEntry(ctx, name, zero) ==
    IF ctx # <<>> /\ ctx[1].Value.k = zero.k THEN ctx[1].Value ELSE zero

\* c.Int(name), c.String(name), ...: the value held under name when it is of
\* the sort read, the zero value of that sort otherwise
lookup(ctx, name, zero) ==
    IF \E i \in 1..Len(ctx) : ctx[i].Name = name
    THEN LET e == ctx[CHOOSE i \in 1..Len(ctx) :
                        ctx[i].Name = name /\ \A j \in 1..(i - 1) : ctx[j].Name # name]
         IN  IF e.Value.k = zero.k THEN e.Value ELSE zero
    ELSE zero

\* genericSliceOf: elements appended to a nil slice of the same type
genericSliceOf(slice) ==
    IF slice.li = <<>> /\ slice.ls = <<>> THEN NilV ELSE slice

(***************************************************************************)
(* Flags                                                                   *)
(***************************************************************************)
\* the switch of Flags: the value read for a field of type typ from the flag
\* called name; ok is false in the default case
extract(typ, ctx, name) ==
    CASE typ = "int" ->
             LET v == lookup(ctx, name, IntV(0))
             IN  [v |-> [v EXCEPT !.n = ToSigned(@)], ok |-> TRUE]
      [] typ \in {"int64", "time.Duration"} ->
             [v |-> lookup(ctx, name, IntV(0)), ok |-> TRUE]
      [] typ = "uint" ->
             LET v == lookup(ctx, name, UintV(0))
             IN  [v |-> [v EXCEPT !.n = ToUnsigned(@)], ok |-> TRUE]
      [] typ = "uint64" -> [v |-> lookup(ctx, name, UintV(0)), ok |-> TRUE]
      [] typ = "float32" ->
             [v |-> ToFloat32(lookup(ctx, name, FloatV([inf |-> FALSE, n |-> 0]))),
              ok |-> TRUE]
      [] typ = "float64" ->
             [v |-> lookup(ctx, name, FloatV([inf |-> FALSE, n |-> 0])), ok |-> TRUE]
      [] typ = "bool" -> [v |-> lookup(ctx, name, BoolV(FALSE)), ok |-> TRUE]
      [] typ = "string" -> [v |-> lookup(ctx, name, StringV(<<>>)), ok |-> TRUE]
      [] typ \in {"[]int", "[]int64"} ->
             [v |-> genericSliceOf(lookup(ctx, name, IntSliceV(<<>>))), ok |-> TRUE]
      [] typ = "[]string" ->
             [v |-> genericSliceOf(lookup(ctx, name, StringSliceV(<<>>))), ok |-> TRUE]
      [] OTHER -> [v |-> NoV, ok |-> FALSE]

\* the loop of Flags over every field, the first included; the body for one
\* field is flagsField, given the parsed tag m, the flag f and the value x
RECURSIVE flagsFields(_, _, _, _)
flagsField(fields, i, ctx, resultValue, m, f, x) ==
    IF m.err # NoErr
    THEN [returned |-> FALSE, panic |-> m.err, result |-> <<>>]
    ELSE IF eligible(fields[i].Name)
    THEN IF f.err # NoErr
         THEN [returned |-> FALSE,
               panic |-> Wrap(f.err, "failed to generate flag from struct field"),
               result |-> <<>>]
         ELSE IF ~x.ok
         THEN [returned |-> FALSE, panic |-> NewErr("unsupported type", <<>>),
               result |-> <<>>]
         ELSE flagsFields(fields, i + 1, ctx, [resultValue EXCEPT ![i] = x.v])
    ELSE flagsFields(fields, i + 1, ctx, resultValue)

flagsFieldFlag(fields, i, ctx, resultValue, m, f) ==
    flagsField(fields, i, ctx, resultValue, m, f, extract(fields[i].Type, ctx, f.flag.Name))

flagsFieldParsed(fields, i, ctx, resultValue, m) ==
    flagsFieldFlag(fields, i, ctx, resultValue, m, fieldFlag(fields[i], m))

flagsFields(fields, i, ctx, resultValue) ==
    IF i > Len(fields) THEN [returned |-> TRUE, panic |-> NoErr, result |-> resultValue]
    ELSE flagsFieldParsed(fields, i, ctx, resultValue, parseMeta(fields[i].Tag))

\* reflect.New(objType).Elem(): n fields at their zero values
RECURSIVE zeroFields(_)
zeroFields(n) == IF n = 0 THEN <<>> ELSE Append(zeroFields(n - 1), NoV)

\* Flags(obj, c): a new instance, every field at its zero value until set
Flags(obj, ctx) ==
    IF obj.IsNil THEN [returned |-> FALSE, panic |-> NewErr("obj is null", <<>>),
                       result |-> <<>>]
    ELSE flagsFields(obj.Fields, 1, ctx, zeroFields(Len(obj.Fields)))

(***************************************************************************)
(* The inputs the actions draw from.                                       *)
(***************************************************************************)
S_myname == <<"m","y","_","n","a","m","e">>
S_abc == <<"a",",","b",",","c">>

DefaultLiterals ==
    { <<>>, <<"7">>, <<"4","2">>, <<"9","9">>, <<"-","7">>, <<"-","9","9">>,
      <<"x","y">>, <<"9","x">>, S_true, S_false, <<"T">>, Q(<<"3",",","4">>),
      Q(<<"a",",","b">>), Q(<<>>), <<"5","m","s">>, <<"2","s">>, <<"5">> }

NameSegs == { <<>>, Seg(K_name, S_myname), Seg(K_name, <<"a">>) }
UsageSegs == { <<>>, Seg(K_usage, Q(S_abc)) }
HiddenSegs == { <<>>, Seg(K_hidden, S_true) }
DefaultSegs == { <<>> } \cup { Seg(K_default, l) : l \in DefaultLiterals }

\* tags that parseMeta rejects
BadTags ==
    { <<"b","o","g","u","s",":","1">>, <<"n","o","v","a","l","u","e">>,
      Seg(K_hidden, <<"m","a","y","b","e">>), Seg(K_hidden, <<>>) }

\* the tags of fields: well-formed combinations of the four keys
GoodTags ==
    { JoinSegs(<<n, u, u2, d>>) :
        n \in NameSegs, u \in UsageSegs, u2 \in HiddenSegs, d \in DefaultSegs }

PlainTags == { JoinSegs(<<n, d>>) : n \in NameSegs, d \in DefaultSegs }

\* the segments of the tags handed to parseMeta on its own, and their pairs
MetaSegs ==
    { Seg(K_name, S_myname), Seg(K_usage, Q(S_abc)), Seg(K_usage, <<"a">>),
      Seg(K_hidden, S_true), Seg(K_hidden, S_false), Seg(K_hidden, <<>>),
      Seg(K_hidden, <<"1">>), Seg(K_hidden, <<"T","r","u","e">>),
      Seg(K_hidden, <<"m","a","y","b","e">>), Seg(K_hidden, Q(S_true)),
      Seg(K_default, <<"1">>), Seg(K_default, Q(<<"3",",","4">>)),
      <<"b","o","g","u","s",":","1">>, <<"n","o","v","a","l","u","e">> }

MetaTags ==
    RawTags \cup MetaSegs \cup { a \o <<",">> \o b : a \in MetaSegs, b \in MetaSegs }

FieldNames == { S_Flag \o <<"A">>, S_Flag \o <<"M","y","N","a","m","e">>,
                <<"O","t","h","e","r">> }

FieldTypes == SupportedTypes \cup {"int32", "[]uint"}

Field(name, typ, tag) == [Name |-> name, Type |-> typ, Tag |-> tag]

\* the first field of a well-formed record
CommandField == Field(S_Command, "cli.Command", Seg(K_usage, Q(S_abc)))

Obj(typeName, action, fields) ==
    [IsNil |-> FALSE, TypeName |-> typeName,
     Embedded |-> [Name |-> <<>>, Action |-> action], Fields |-> fields]

NilObj == [IsNil |-> TRUE, TypeName |-> <<>>, Embedded |-> [Name |-> <<>>, Action |-> "nil"],
           Fields |-> <<>>]

S_Run == <<"R","u","n">>
S_Serve == <<"S","e","r","v","e">>

\* records with one field after the command marker: every name, type and tag
OneFieldObjs ==
    { Obj(S_Run, "run", <<CommandField, Field(n, t, g)>>) :
        n \in FieldNames, t \in FieldTypes, g \in PlainTags \cup BadTags }

\* fields the records with two fields are made of
CoreFields ==
    { Field(S_Flag \o <<"A">>, "int", Seg(K_default, <<"7">>)),
      Field(S_Flag \o <<"A">>, "bool", Seg(K_default, S_true)),
      Field(S_Flag \o <<"M","y","N","a","m","e">>, "[]string", Seg(K_default, Q(<<"a",",","b">>))),
      Field(S_Flag \o <<"B">>, "string", JoinSegs(<<Seg(K_name, S_myname), Seg(K_default, <<"x","y">>)>>)),
      Field(S_Flag \o <<"B">>, "float32", Seg(K_default, <<"4","2">>)),
      Field(S_Flag \o <<"C">>, "int32", <<>>),
      Field(<<"O","t","h","e","r">>, "int32", <<>>),
      Field(<<"O","t","h","e","r">>, "int", <<"n","o","v","a","l","u","e">>) }

TwoFieldObjs ==
    { Obj(S_Serve, "serve", <<CommandField, f, g>>) : f \in CoreFields, g \in CoreFields }

\* records that fail before any field is read, or at the first field
HeaderObjs ==
    { NilObj,
      Obj(<<>>, "run", <<CommandField>>),
      Obj(S_Run, "run", <<CommandField>>),
      Obj(S_Run, "run", <<Field(<<"C","m","d">>, "cli.Command", <<>>)>>),
      Obj(S_Run, "run", <<Field(S_Command, "int", <<>>)>>),
      Obj(S_Run, "run", <<Field(S_Command, "other.Command", <<>>)>>),
      Obj(S_Run, "run", <<Field(S_Command, "cli.Command", <<"n","o","v","a","l","u","e">>)>>) }

Objs == OneFieldObjs \cup TwoFieldObjs \cup HeaderObjs

\* the records Build is given sequences of
BuildObjs ==
    { NilObj,
      Obj(S_Run, "run", <<CommandField>>),
      Obj(S_Run, "run", <<CommandField, Field(S_Flag \o <<"A">>, "int", Seg(K_default, <<"7">>))>>),
      Obj(S_Serve, "serve",
          <<Field(S_Command, "cli.Command", <<>>),
            Field(S_Flag \o <<"A">>, "bool", Seg(K_default, S_true)),
            Field(<<"O","t","h","e","r">>, "int32", <<>>)>>),
      Obj(S_Serve, "serve", <<CommandField, Field(S_Flag \o <<"C">>, "int32", <<>>)>>),
      Obj(S_Run, "run", <<CommandField, Field(S_Flag \o <<"A">>, "int", Seg(K_hidden, <<>>))>>) }

ObjSeqs == SeqsUpTo(BuildObjs, MaxObjs)

(***************************************************************************)
(* The state machine: the operations are pure and share no state, so each  *)
(* behaviour is one call: op is the operation called, arg what it was      *)
(* called with and out what it gave.                                       *)
(***************************************************************************)
Init ==
    /\ op = "init"
    /\ arg = <<>>
    /\ out = <<>>

DoParseMeta ==
    /\ op = "init"
    /\ \E s \in MetaTags :
        /\ op' = "parseMeta"
        /\ arg' = [s |-> s]
        /\ out' = parseMeta(s)

\* flagFromType is called with an eligible field and the metadata parsed
\* from its tag
DoFlagFromType ==
    /\ op = "init"
    /\ \E n \in FieldNames, t \in FieldTypes, g \in GoodTags :
        /\ eligible(n)
        /\ op' = "flagFromType"
        /\ arg' = [fieldType |-> Field(n, t, g), cmdmeta |-> parseMeta(g).cmdmeta]
        /\ out' = flagFromType(Field(n, t, g), parseMeta(g).cmdmeta)

DoCommandFromObject ==
    /\ op = "init"
    /\ \E obj \in Objs :
        /\ op' = "commandFromObject"
        /\ arg' = [obj |-> obj]
        /\ out' = commandFromObject(obj)

DoBuild ==
    /\ op = "init"
    /\ \E objs \in ObjSeqs :
        /\ op' = "Build"
        /\ arg' = [objs |-> objs]
        /\ out' = Build(objs)

\* flag names of one command are distinct in a context that exists: the flag
\* set refuses a name that is already defined
distinctNames(flags) ==
    \A i, j \in 1..Len(flags) : flags[i].Name = flags[j].Name => i = j

\* Flags is called from the action of a built command, with the context of
\* an invocation that gives no flag
FlagsOfBuilt(obj, r) ==
    /\ r.err = NoErr
    /\ distinctNames(r.command.Flags)
    /\ op' = "Flags"
    /\ arg' = [obj |-> obj, flags |-> r.command.Flags, ctx |-> contextOf(r.command.Flags)]
    /\ out' = Flags(obj, contextOf(r.command.Flags))

DoFlags ==
    /\ op = "init"
    /\ \E obj \in Objs : FlagsOfBuilt(obj, commandFromObject(obj))

\* Flags called with a record and a context that do not belong together
DoFlagsBare ==
    /\ op = "init"
    /\ \E obj \in HeaderObjs \cup TwoFieldObjs :
        /\ op' = "FlagsBare"
        /\ arg' = [obj |-> obj, flags |-> <<>>, ctx |-> <<>>]
        /\ out' = Flags(obj, <<>>)

Next ==
    \/ DoParseMeta
    \/ DoFlagFromType
    \/ DoCommandFromObject
    \/ DoBuild
    \/ DoFlags
    \/ DoFlagsBare

Spec == Init /\ [][Next]_vars

(***************************************************************************)
(* The properties.                                                         *)
(***************************************************************************)
\* the closed set of declared types, as the specification lists it
ClosedTypeSet == {"int", "int64", "uint", "uint64", "float32", "float64", "bool",
                  "string", "time.Duration", "[]int", "[]int64", "[]string"}

\* a field name that carries the Flag prefix
HasFlagPrefix(name) ==
    /\ Len(name) >= 4
    /\ name[1] = "F" /\ name[2] = "l" /\ name[3] = "a" /\ name[4] = "g"

\* the positions of the fields of a record that become flags
EligiblePositions(obj) == { i \in 2..Len(obj.Fields) : HasFlagPrefix(obj.Fields[i].Name) }

\* every record of a sequence synthesizes successfully
AllSynthesize(objs) == \A i \in 1..Len(objs) : commandFromObject(objs[i]).err = NoErr

\* C1: Build of one record that synthesizes gives an application whose usage,
\* action and flags are that command's and that has no subcommand; Build of
\* two or more gives an application without top-level flags and with one
\* subcommand per record, named after the record's type, in input order.
C1_Flattening ==
    (op = "Build" /\ Len(arg.objs) >= 1 /\ AllSynthesize(arg.objs)) =>
        /\ out.returned
        /\ Len(arg.objs) = 1 =>
              /\ out.c.Usage = commandFromObject(arg.objs[1]).command.Usage
              /\ out.c.Action = arg.objs[1].Embedded.Action
              /\ out.c.Flags = commandFromObject(arg.objs[1]).command.Flags
              /\ Len(out.c.Flags) = Cardinality(EligiblePositions(arg.objs[1]))
              /\ out.c.Commands = <<>>
        /\ Len(arg.objs) >= 2 =>
              /\ out.c.Flags = <<>>
              /\ Len(out.c.Commands) = Len(arg.objs)
              /\ \A i \in 1..Len(arg.objs) :
                    /\ out.c.Commands[i] = commandFromObject(arg.objs[i]).command
                    /\ out.c.Commands[i].Action = arg.objs[i].Embedded.Action
                    /\ Len(out.c.Commands[i].Name) = Len(arg.objs[i].TypeName)

C1_Witness ==
    /\ op = "Build"
    /\ Len(arg.objs) = 2
    /\ out.returned
    /\ Len(out.c.Commands) = 2
    /\ out.c.Commands[1].Name = <<"s","e","r","v","e">>
    /\ out.c.Commands[1].Flags # <<>>
    /\ out.c.Commands[2].Name = <<"r","u","n">>
    /\ out.c.Flags = <<>>

\* the coerced default of a synthesized flag
CoercedDefault(flag) ==
    IF flag.Kind = "BoolFlag" THEN BoolV(FALSE)
    ELSE IF flag.Kind = "BoolTFlag" THEN BoolV(TRUE)
    ELSE flag.Value

\* C2: Flags, on the context in which every flag of the command holds its
\* synthesized default, returns for every eligible field, in particular one
\* with a name override, the coerced default of the flag made from it.
C2_RoundTrip ==
    op = "Flags" =>
        /\ out.returned
        /\ Len(out.result) = Len(arg.obj.Fields)
        /\ Len(arg.flags) = Cardinality(EligiblePositions(arg.obj))
        /\ \A i \in EligiblePositions(arg.obj) :
              LET j == Cardinality({ k \in EligiblePositions(arg.obj) : k <= i })
              IN  out.result[i] = CoercedDefault(arg.flags[j])
        /\ \A i \in 1..Len(arg.obj.Fields) :
              i \notin EligiblePositions(arg.obj) => out.result[i] = NoV

C2_Witness ==
    /\ op = "Flags"
    /\ Len(arg.obj.Fields) = 3
    /\ arg.obj.Fields[2].Type = "int"
    /\ arg.obj.Fields[3].Type = "string"
    /\ arg.flags[2].Name = <<"m","y","-","n","a","m","e">>
    /\ out.returned
    /\ out.result[2] = IntV(7)
    /\ out.result[3] = StringV(<<"x","y">>)

\* C3: when the k-th record is the first whose synthesis fails, Build panics
\* with that record's error unchanged, no later record is synthesized and no
\* application is returned.
C3_FailFast ==
    op = "Build" =>
        \A k \in 1..Len(arg.objs) :
            ( /\ \A j \in 1..(k - 1) : commandFromObject(arg.objs[j]).err = NoErr
              /\ commandFromObject(arg.objs[k]).err # NoErr )
            => /\ ~out.returned
               /\ out.panic = commandFromObject(arg.objs[k]).err
               /\ out.calls = k

C3_Witness ==
    /\ op = "Build"
    /\ Len(arg.objs) = 3
    /\ commandFromObject(arg.objs[1]).err = NoErr
    /\ commandFromObject(arg.objs[2]).err # NoErr
    /\ commandFromObject(arg.objs[3]).err = NoErr
    /\ ~out.returned
    /\ out.calls = 2

\* C4: an eligible field whose declared type is outside the closed set makes
\* the flag synthesizer fail and the command synthesis of its record fail:
\* no command descriptor comes back.
C4_UnsupportedType ==
    /\ (op = "flagFromType" /\ arg.fieldType.Type \notin ClosedTypeSet) =>
           /\ out.err # NoErr
           /\ out.flag = NilFlag
    /\ (op = "flagFromType" /\ arg.fieldType.Type \in ClosedTypeSet) => out.err = NoErr
    /\ ( /\ op = "commandFromObject"
         /\ \E i \in EligiblePositions(arg.obj) : arg.obj.Fields[i].Type \notin ClosedTypeSet )
       => /\ out.err # NoErr
          /\ out.command = NilCommand

C4_Witness ==
    /\ op = "commandFromObject"
    /\ Len(arg.obj.Fields) = 3
    /\ arg.obj.Fields[2].Type = "int"
    /\ HasFlagPrefix(arg.obj.Fields[3].Name)
    /\ arg.obj.Fields[3].Type = "int32"
    /\ Len(out.err) = 2
    /\ out.err[1].msg = "failed to generate flag from struct field"
    /\ out.command = NilCommand

\* the tags of the one-field records whose default is the literal true, and
\* those whose default is the literal false or that give none
TagsDefaultTrue == { JoinSegs(<<n, Seg(K_default, <<"t","r","u","e">>)>>) : n \in NameSegs }
TagsDefaultFalse ==
    { JoinSegs(<<n, Seg(K_default, <<"f","a","l","s","e">>)>>) : n \in NameSegs }
        \cup NameSegs

\* C5: a boolean field with default:true is read back as true when the
\* invocation gives no flag; with default:false or without a default, as false.
C5_BoolPolarity ==
    (op = "Flags" /\ Len(arg.obj.Fields) = 2 /\ arg.obj.Fields[2].Type = "bool"
        /\ HasFlagPrefix(arg.obj.Fields[2].Name)) =>
        /\ arg.obj.Fields[2].Tag \in TagsDefaultTrue => out.result[2] = BoolV(TRUE)
        /\ arg.obj.Fields[2].Tag \in TagsDefaultFalse => out.result[2] = BoolV(FALSE)

C5_Witness ==
    /\ op = "Flags"
    /\ Len(arg.obj.Fields) = 2
    /\ arg.obj.Fields[2].Type = "bool"
    /\ arg.obj.Fields[2].Tag = Seg(K_default, <<"t","r","u","e">>)
    /\ arg.flags[1].Kind = "BoolTFlag"
    /\ out.result[2] = BoolV(TRUE)

\* the number of comma-separated parts of a literal
CommaParts(l) == Cardinality({ i \in 1..Len(l) : l[i] = "," }) + 1

\* the default literals that are empty once their quotes are trimmed
EmptyLiterals == { <<>>, <<"'","'">> }

\* C6: a list-typed field with an empty default literal gets a nil default,
\* never an empty list; with a non-empty literal, a list with one element per
\* comma-separated part.
C6_EmptyVsUnset ==
    (op = "flagFromType" /\ arg.fieldType.Type \in {"[]int", "[]int64", "[]string"}) =>
        /\ out.err = NoErr
        /\ arg.cmdmeta.Default \in EmptyLiterals => out.flag.Value = NilV
        /\ arg.cmdmeta.Default \notin EmptyLiterals =>
              /\ out.flag.Value.k = (IF arg.fieldType.Type = "[]string"
                                     THEN "[]string" ELSE "[]int")
              /\ Len(out.flag.Value.li) + Len(out.flag.Value.ls)
                     = CommaParts(arg.cmdmeta.Default)

C6_Witness ==
    /\ op = "flagFromType"
    /\ arg.fieldType.Type = "[]int64"
    /\ arg.cmdmeta.Default = <<"'","'">>
    /\ out.flag.Kind = "Int64SliceFlag"
    /\ out.flag.Value = NilV

\* position i of s is a comma outside every single-quote span
IsSplit(s, i) ==
    /\ s[i] = ","
    /\ Cardinality({ j \in 1..(i - 1) : s[j] = "'" }) % 2 = 0

\* the non-empty stretches of s between two such commas
Spans(s) ==
    { sp \in (1..Len(s)) \X (1..Len(s)) :
        /\ sp[1] <= sp[2]
        /\ \A k \in sp[1]..sp[2] : ~IsSplit(s, k)
        /\ sp[1] = 1 \/ IsSplit(s, sp[1] - 1)
        /\ sp[2] = Len(s) \/ IsSplit(s, sp[2] + 1) }

ExampleTag ==
    <<"u","s","a","g","e",":","'","a",",","b",",","c","'",",",
      "d","e","f","a","u","l","t",":","1">>

\* C7: parseMeta splits an annotation string at exactly the commas outside
\* single-quote spans; usage:'a,b,c',default:1 gives usage a,b,c and default 1.
C7_QuoteAwareSplit ==
    op = "parseMeta" =>
        /\ Len(out.sections) = Cardinality(Spans(arg.s))
        /\ \A sp \in Spans(arg.s) :
              out.sections[1 + Cardinality({ q \in Spans(arg.s) : q[1] < sp[1] })]
                  = SubSeq(arg.s, sp[1], sp[2])
        /\ arg.s = ExampleTag =>
              /\ out.err = NoErr
              /\ out.cmdmeta.Usage = <<"a",",","b",",","c">>
              /\ out.cmdmeta.Default = <<"1">>

C7_Witness ==
    /\ op = "parseMeta"
    /\ arg.s = ExampleTag
    /\ Len(out.sections) = 2
    /\ out.cmdmeta.Usage = <<"a",",","b",",","c">>
    /\ out.cmdmeta.Default = <<"1">>

\* the values of hidden that are tried
HiddenValues ==
    { <<"t","r","u","e">>, <<"f","a","l","s","e">>, <<>>, <<"1">>, <<"T","r","u","e">>,
      <<"m","a","y","b","e">>, <<"'","t","r","u","e","'">> }

\* the literals Go reads as a boolean
GoBoolLiterals ==
    { <<"1">>, <<"t">>, <<"T">>, <<"T","R","U","E">>, <<"t","r","u","e">>,
      <<"T","r","u","e">>, <<"0">>, <<"f">>, <<"F">>, <<"F","A","L","S","E">>,
      <<"f","a","l","s","e">>, <<"F","a","l","s","e">> }

\* C8 as stated: parseMeta of a hidden segment fails if and only if the value
\* is not one of true, false or empty.
C8_AsStated ==
    \A v \in HiddenValues :
        (op = "parseMeta" /\ arg.s = Seg(K_hidden, v)) =>
            (out.err # NoErr <=> v \notin { <<"t","r","u","e">>, <<"f","a","l","s","e">>, <<>> })

\* C8: parseMeta of a hidden segment fails, with the boolean parse error
\* wrapped, if and only if the value is not one of the literals Go reads as a
\* boolean (1, t, T, TRUE, true, True, 0, f, F, FALSE, false, False); the
\* empty value fails.
C8_HiddenParse ==
    \A v \in HiddenValues :
        (op = "parseMeta" /\ arg.s = Seg(K_hidden, v)) =>
            /\ out.err # NoErr <=> v \notin GoBoolLiterals
            /\ out.err # NoErr => out.err[1].msg = "failed to parse 'hidden' as a bool"
            /\ out.err = NoErr =>
                  out.cmdmeta.Hidden = (v \in { <<"1">>, <<"t","r","u","e">>, <<"T","r","u","e">> })

C8_Witness ==
    /\ op = "parseMeta"
    /\ arg.s = Seg(K_hidden, <<>>)
    /\ Len(out.err) = 2
    /\ out.err[1].msg = "failed to parse 'hidden' as a bool"

\* the decimal integer literals among the defaults tried, and their values
IntegerLiterals ==
    { <<"7">>, <<"4","2">>, <<"9","9">>, <<"-","7">>, <<"-","9","9">>, <<"5">> }
LiteralValue(l) ==
    CASE l = <<"7">> -> 7
      [] l = <<"4","2">> -> 42
      [] l = <<"9","9">> -> 99
      [] l = <<"-","7">> -> 0 - 7
      [] l = <<"-","9","9">> -> 0 - 99
      [] l = <<"5">> -> 5

\* the range of each numeric type
TypeMin(typ) ==
    CASE typ \in {"int", "int64"} -> MinInt64
      [] typ \in {"uint", "uint64"} -> 0
      [] typ = "float32" -> 0 - MaxFloat32
      [] typ = "float64" -> 0 - MaxFloat64
TypeMax(typ) ==
    CASE typ \in {"int", "int64"} -> MaxInt64
      [] typ \in {"uint", "uint64"} -> MaxUint64
      [] typ = "float32" -> MaxFloat32
      [] typ = "float64" -> MaxFloat64

NumericTypes == {"int", "int64", "uint", "uint64", "float32", "float64"}

\* a default literal that cannot be parsed into the type: not of its syntax,
\* or outside its range
Unparsable(typ, l) ==
    CASE typ \in NumericTypes ->
             \/ l \notin IntegerLiterals
             \/ typ \in {"uint", "uint64"} /\ l[1] = "-"
             \/ LiteralValue(l) < TypeMin(typ)
             \/ LiteralValue(l) > TypeMax(typ)
      [] typ = "bool" -> l \notin GoBoolLiterals
      [] typ = "time.Duration" -> l \notin { <<"5","m","s">>, <<"2","s">> }

\* the default a synthesized flag carries is the zero value of its type
ZeroDefault(flag) ==
    /\ flag.Kind # "BoolTFlag"
    /\ flag.Value.n = 0
    /\ ~flag.Value.inf

OutOfRange(typ, l) ==
    /\ typ \in NumericTypes
    /\ l \in IntegerLiterals
    /\ ~(typ \in {"uint", "uint64"} /\ l[1] = "-")
    /\ LiteralValue(l) < TypeMin(typ) \/ LiteralValue(l) > TypeMax(typ)

WithoutField(obj, i) ==
    [obj EXCEPT !.Fields = SubSeq(obj.Fields, 1, i - 1) \o
                           SubSeq(obj.Fields, i + 1, Len(obj.Fields))]

\* the tags tried that are not well-formed annotation strings
MalformedTags ==
    { <<"b","o","g","u","s",":","1">>, <<"n","o","v","a","l","u","e">>,
      <<"h","i","d","d","e","n",":","m","a","y","b","e">>, <<"h","i","d","d","e","n",":">> }

\* C10 as stated: a field after the command marker without the Flag prefix
\* does not change what the command synthesizer gives, whatever its type and
\* its annotation string.
C10_AsStated ==
    (op = "commandFromObject" /\ ~arg.obj.IsNil) =>
        \A i \in 2..Len(arg.obj.Fields) :
            ~HasFlagPrefix(arg.obj.Fields[i].Name) => out = commandFromObject(WithoutField(arg.obj, i))

\* C10: a field after the command marker without the Flag prefix whose
\* annotation string is well-formed does not change what the command
\* synthesizer gives, whatever its type; when the annotation string is
\* malformed and every field before it is accepted, the synthesis fails.
C10_NonEligibleSkipped ==
    (op = "commandFromObject" /\ ~arg.obj.IsNil) =>
        \A i \in 2..Len(arg.obj.Fields) :
            ~HasFlagPrefix(arg.obj.Fields[i].Name) =>
                /\ arg.obj.Fields[i].Tag \notin MalformedTags =>
                      out = commandFromObject(WithoutField(arg.obj, i))
                /\ ( /\ arg.obj.Fields[i].Tag \in MalformedTags
                     /\ commandFromObject([arg.obj EXCEPT !.Fields = SubSeq(@, 1, i - 1)]).err
                            = NoErr )
                   => out.err # NoErr

C10_Witness ==
    /\ op = "commandFromObject"
    /\ Len(arg.obj.Fields) = 3
    /\ ~HasFlagPrefix(arg.obj.Fields[2].Name)
    /\ arg.obj.Fields[2].Type = "int32"
    /\ arg.obj.Fields[2].Tag = <<>>
    /\ arg.obj.Fields[3].Type = "bool"
    /\ out.err = NoErr
    /\ Len(out.command.Flags) = 1

====
